---- MODULE Spec2Model ----
(***************************************************************************)
(* Real-time sensor monitoring (src/monitoring/real_time_monitor.py):      *)
(* SensorReading.validate, RealTimeBuffer and the RealTimeMonitor          *)
(* ingestion loop with its alert dispatch; and the encrypted store         *)
(* SecureStorage (src/data_management/secure_storage.py).                  *)
(*                                                                         *)
(* Time is counted in whole seconds.  A datetime is an integer number of   *)
(* seconds, a timedelta the difference of two of them.  Floats are the     *)
(* integer-valued ones.  HMAC-SHA256 is an ideal MAC: the tag of (key,     *)
(* data) is the pair itself, so two tags are equal exactly when key and    *)
(* data are equal.                                                         *)
(***************************************************************************)
EXTENDS Integers, Sequences, FiniteSets, TLC

VARIABLES
    now,              \* datetime.now()
    ticks,            \* number of times the clock has been advanced
    count,            \* number of add calls made / frames received
    secret_key,       \* the secret_key handed to validate / RealTimeMonitor
    reading,          \* the SensorReading at hand (NoReading when there is none)
    valid,            \* value returned by the latest SensorReading.validate
    vpc,              \* SpecValidate: "new", "validated", "tampered", "revalidated"
    tampered,         \* SpecValidate: name of the field changed after acceptance
    buffers,          \* RealTimeMonitor.buffers: sensor_id -> RealTimeBuffer
    op,               \* name of the latest call made on a RealTimeBuffer
    recent,           \* value returned by the latest get_recent
    locks,            \* sensor ids whose RealTimeBuffer.lock is held
    is_running,       \* RealTimeMonitor.is_running
    websocket,        \* RealTimeMonitor.websocket: "none", "open" or "closed"
    alert_callbacks,  \* RealTimeMonitor.alert_callbacks
    shutdown,         \* the ThreadPoolExecutor has been shut down
    pc,               \* where start() / _monitor_loop stands
    stop_pc,          \* where stop() stands: "none", "closing", "draining"
    futures,          \* alert_futures of the running _check_alerts
    fidx,             \* index of the future the for loop of _check_alerts awaits
    evals,            \* evals[i]: calls of alert_callbacks[i] on the reading at hand
    dispatched,       \* hand-offs made by _handle_alert for the reading at hand
    log,              \* the latest message the monitor has logged
    rows,             \* SecureStorage: the rows of table sensor_data, in rowid order
    sop,              \* SecureStorage: name of the call that has just returned
    sarg,             \* SecureStorage: the arguments of that call
    result,           \* SecureStorage: the value that call returned
    stats,            \* value returned (or error raised) by the latest monitor query
    qpc               \* where a coroutine calling get_recent stands

vars == <<now, ticks, count, secret_key, reading, valid, vpc, tampered, buffers, op, recent,
          locks, is_running, websocket, alert_callbacks, shutdown, pc, stop_pc, futures, fidx,
          evals, dispatched, log, rows, sop, sarg, result, stats, qpc>>

valVars == <<secret_key, valid, vpc, tampered>>
bufVars == <<buffers, op, recent, locks>>
clockVars == <<now, ticks>>
alertVars == <<futures, fidx, evals, dispatched>>
monVars == <<is_running, websocket, alert_callbacks, shutdown, pc, stop_pc, alertVars, log>>
storeVars == <<rows, sop, sarg, result>>
queryVars == <<stats, qpc>>

----------------------------------------------------------------------------
(* Program constants *)

SecondsPerDay == 86400
cleanup_interval == 3600
max_workers == 4
RetentionDays == 7

(* Bounds of the model *)

max_size == 2
MaxAdds == 3
MaxTicks == 2
MaxCallbacks == 2

----------------------------------------------------------------------------
(* SensorReading *)

Keys == {"k1", "k2"}
Units == {"C", "Cs"}
SensorIds == {"s1", "1"}
Values == {1, -2}
Confidences == {0, 1}
NoTag == <<"", "">>
NoReading == [timestamp |-> 0, value |-> 0, unit |-> "", sensor_id |-> "",
              checksum |-> NoTag, confidence |-> 0, is_validated |-> FALSE]

\* str(datetime): the date, a blank, the time of day
DatetimeStr(t) == ToString(t \div SecondsPerDay) \o " " \o ToString(t % SecondsPerDay)

\* str(float) of an integer-valued float: 5.0 prints as "5.0"
FloatStr(v) == ToString(v) \o ".0"

\* hmac.new(key, data, sha256).hexdigest()
HMAC(key, data) == <<key, data>>

\* hmac.compare_digest
compare_digest(a, b) == a = b

\* the f-string of SensorReading.validate
ValidateData(r) ==
    DatetimeStr(r.timestamp) \o FloatStr(r.value) \o r.unit \o r.sensor_id

\* the f-string of SecureStorage._verify_checksum
VerifyChecksumData(r) ==
    DatetimeStr(r.timestamp) \o r.sensor_id \o FloatStr(r.value) \o r.unit

\* The f-string with the fields in the order timestamp, sensor_id, value, unit
ValidateDataSensorFirst(r) == VerifyChecksumData(r)

\* validate with the fields of the data in the order timestamp, sensor_id, value, unit
validate_sensor_first(r, key) ==
    [r EXCEPT !.is_validated =
        compare_digest(HMAC(key, ValidateDataSensorFirst(r)), r.checksum)]

\* SensorReading.validate: the reading with its flag set; the flag is the return value
validate(r, key) ==
    [r EXCEPT !.is_validated = compare_digest(HMAC(key, ValidateData(r)), r.checksum)]

\* the monitor before start(): RealTimeMonitor.__init__, less buffers and secret_key
MonitorInit ==
    /\ is_running = FALSE
    /\ websocket = "none"
    /\ alert_callbacks = <<>>
    /\ shutdown = FALSE
    /\ pc = "idle"
    /\ stop_pc = "none"
    /\ futures = <<>>
    /\ fidx = 1
    /\ evals = <<>>
    /\ dispatched = <<>>
    /\ log = ""

\* no query on the monitor has been made
NoStats == [raised |-> "none", value |-> [none |-> TRUE]]

NoQuery ==
    /\ stats = NoStats
    /\ qpc = "idle"

\* no SecureStorage is in use
NoStore ==
    /\ rows = <<>>
    /\ sop = "none"
    /\ sarg = [none |-> TRUE]
    /\ result = [ok |-> TRUE, points |-> <<>>]

SensorReading(t, v, u, s, c, conf) ==
    [timestamp |-> t, value |-> v, unit |-> u, sensor_id |-> s,
     checksum |-> c, confidence |-> conf, is_validated |-> FALSE]

----------------------------------------------------------------------------
(* SpecValidate: one reading, built from arbitrary fields and an arbitrary  *)
(* checksum, is validated; an accepted reading then has one field changed   *)
(* and is validated again.                                                  *)

ValTimestamps == {0, 90061}
TaggedFields == {"timestamp", "value", "unit", "sensor_id"}
AllFields == TaggedFields \cup {"confidence"}

FieldTuples ==
    {SensorReading(t, v, u, s, NoTag, 0) :
        t \in ValTimestamps, v \in Values, u \in Units, s \in SensorIds}

\* Checksums a sender may supply: the tag of any field tuple under any key, with
\* the fields in either order, or no tag at all
Checksums ==
    {HMAC(k, ValidateData(r)) : k \in Keys, r \in FieldTuples}
    \cup {HMAC(k, VerifyChecksumData(r)) : k \in Keys, r \in FieldTuples}
    \cup {NoTag}

FieldDomain(f) ==
    CASE f = "timestamp" -> ValTimestamps
      [] f = "value" -> Values
      [] f = "unit" -> Units
      [] f = "sensor_id" -> SensorIds
      [] f = "confidence" -> Confidences

SetField(r, f, x) ==
    CASE f = "timestamp" -> [r EXCEPT !.timestamp = x]
      [] f = "value" -> [r EXCEPT !.value = x]
      [] f = "unit" -> [r EXCEPT !.unit = x]
      [] f = "sensor_id" -> [r EXCEPT !.sensor_id = x]
      [] f = "confidence" -> [r EXCEPT !.confidence = x]

GetField(r, f) ==
    CASE f = "timestamp" -> r.timestamp
      [] f = "value" -> r.value
      [] f = "unit" -> r.unit
      [] f = "sensor_id" -> r.sensor_id
      [] f = "confidence" -> r.confidence

InitValidate ==
    /\ now = 0
    /\ ticks = 0
    /\ count = 0
    /\ secret_key \in Keys
    /\ reading \in {SensorReading(r.timestamp, r.value, r.unit, r.sensor_id, c, conf) :
                        r \in FieldTuples, c \in Checksums, conf \in Confidences}
    /\ valid = FALSE
    /\ vpc = "new"
    /\ tampered = "none"
    /\ buffers = <<>>
    /\ op = [name |-> "init", seconds |-> 0]
    /\ recent = <<>>
    /\ locks = {}
    /\ MonitorInit
    /\ NoStore
    /\ NoQuery

Validate ==
    /\ vpc \in {"new", "tampered"}
    /\ reading' = validate(reading, secret_key)
    /\ valid' = reading'.is_validated
    /\ vpc' = IF vpc = "new" THEN "validated" ELSE "revalidated"
    /\ UNCHANGED <<queryVars, storeVars,
                   clockVars, count, secret_key, tampered, bufVars, monVars>>

\* a field of an accepted reading is overwritten (the dataclass is mutable);
\* the checksum is kept
Tamper ==
    /\ vpc = "validated"
    /\ valid
    /\ \E f \in AllFields : \E x \in FieldDomain(f) :
          /\ x # GetField(reading, f)
          /\ reading' = SetField(reading, f, x)
          /\ tampered' = f
    /\ vpc' = "tampered"
    /\ UNCHANGED <<queryVars, storeVars, clockVars, count, secret_key, valid, bufVars, monVars>>

NextValidate == Validate \/ Tamper

SpecValidate == InitValidate /\ [][NextValidate]_vars

----------------------------------------------------------------------------
(* RealTimeBuffer *)

\* append without the maxlen of the deque (a plain list)
ListAppend(q, x) == Append(q, x)

\* append on a full deque evicting at the wrong end (the newest entry)
DequeAppendEvictNewest(q, x) ==
    IF Len(q) >= max_size THEN SubSeq(q, 1, Len(q) - 1) \o <<x>> ELSE Append(q, x)

\* collections.deque.append on a deque with maxlen = max_size
DequeAppend(q, x) ==
    IF Len(q) >= max_size THEN Tail(q) \o <<x>> ELSE Append(q, x)

\* collections.deque(iterable, maxlen = max_size): the last max_size items
Deque(items) ==
    IF Len(items) > max_size
    THEN SubSeq(items, Len(items) - max_size + 1, Len(items))
    ELSE items

\* timedelta.seconds: the seconds left over after the whole days
TimedeltaSeconds(d) == d % SecondsPerDay

\* timedelta(days = n) in seconds
TimedeltaDays(n) == n * SecondsPerDay

\* RealTimeBuffer.__init__ at time t
RealTimeBuffer(t) == [buffer |-> <<>>, last_cleanup |-> t]

\* _cleanup_if_needed with the horizon taken in seconds instead of days
cleanup_horizon_in_seconds(b, t) ==
    IF TimedeltaSeconds(t - b.last_cleanup) > cleanup_interval
    THEN LET cutoff == t - RetentionDays
         IN  [buffer |-> Deque(SelectSeq(b.buffer, LAMBDA r : r.timestamp > cutoff)),
              last_cleanup |-> t]
    ELSE b

\* RealTimeBuffer._cleanup_if_needed at time t
cleanup_if_needed(b, t) ==
    IF TimedeltaSeconds(t - b.last_cleanup) > cleanup_interval
    THEN LET cutoff == t - TimedeltaDays(RetentionDays)
         IN  [buffer |-> Deque(SelectSeq(b.buffer, LAMBDA r : r.timestamp > cutoff)),
              last_cleanup |-> t]
    ELSE b

\* RealTimeBuffer.add at time t
add(b, r, t) == cleanup_if_needed([b EXCEPT !.buffer = DequeAppend(@, r)], t)

\* get_recent keeping the entry that lies exactly on the cutoff
get_recent_inclusive(b, seconds, t) ==
    LET cutoff == t - seconds
    IN  SelectSeq(b.buffer, LAMBDA r : r.timestamp >= cutoff)

\* RealTimeBuffer.get_recent at time t
get_recent(b, seconds, t) ==
    LET cutoff == t - seconds
    IN  SelectSeq(b.buffer, LAMBDA r : r.timestamp > cutoff)

----------------------------------------------------------------------------
(* SpecBuffer: one RealTimeBuffer, built at time 0, receives add and        *)
(* get_recent calls while the clock advances.  Readings carry any           *)
(* timestamp at or before the current time, in any order of arrival.        *)

TheBuffer == "s1"
TickSteps == {cleanup_interval, cleanup_interval + 1, SecondsPerDay}
Ages == {0, 2 * cleanup_interval, TimedeltaDays(RetentionDays + 1)}
RecentWindows == {cleanup_interval, SecondsPerDay + cleanup_interval}

InitBuffer ==
    /\ now = 0
    /\ ticks = 0
    /\ count = 0
    /\ secret_key = "k1"
    /\ reading = NoReading
    /\ valid = FALSE
    /\ vpc = "unused"
    /\ tampered = "none"
    /\ buffers = [s \in {TheBuffer} |-> RealTimeBuffer(now)]
    /\ op = [name |-> "init", seconds |-> 0]
    /\ recent = <<>>
    /\ locks = {}
    /\ MonitorInit
    /\ NoStore
    /\ NoQuery

BufAdd ==
    /\ count < MaxAdds
    /\ \E age \in Ages :
          /\ reading' = SensorReading(now - age, 1, "C", TheBuffer, NoTag, 1)
          /\ buffers' = [buffers EXCEPT ![TheBuffer] = add(@, reading', now)]
    /\ count' = count + 1
    /\ op' = [name |-> "add", seconds |-> 0]
    /\ UNCHANGED <<queryVars, storeVars, clockVars, valVars, recent, locks, monVars>>

BufGetRecent ==
    /\ \E seconds \in RecentWindows :
          /\ recent' = get_recent(buffers[TheBuffer], seconds, now)
          /\ op' = [name |-> "get_recent", seconds |-> seconds]
    /\ UNCHANGED <<queryVars, storeVars,
                   clockVars, count, valVars, reading, buffers, locks, monVars>>

\* the clock advances by one of the steps
TickBy(steps) ==
    /\ ticks < MaxTicks
    /\ \E d \in steps : now' = now + d
    /\ ticks' = ticks + 1
    /\ op' = [name |-> "tick", seconds |-> 0]
    /\ UNCHANGED <<queryVars, storeVars,
                   count, valVars, reading, buffers, recent, locks, monVars>>

Tick == TickBy(TickSteps)

NextBuffer == BufAdd \/ BufGetRecent \/ Tick

SpecBuffer == InitBuffer /\ [][NextBuffer]_vars

----------------------------------------------------------------------------
(* RealTimeMonitor.  One asyncio event loop runs start()/_monitor_loop,     *)
(* stop() and add_alert_callback; another coroutine runs only while the     *)
(* loop is suspended in an await (recv, sleep, wrap_future) and while       *)
(* stop() does not block the event loop thread in executor.shutdown.  The   *)
(* executor's worker threads run beside the event loop.  The clock stands   *)
(* still in this specification: what an add does as time passes is the      *)
(* matter of SpecBuffer.                                                    *)

MonSensors == {"s1", "s2"}
MonAges == {0}

\* what one call of a callback on a reading may do: return None, return an
\* alert dict with its severity, return a dict without a 'severity' key, or raise
Outcomes == {"None", "critical", "warning", "no-severity", "raises"}

\* The frames a peer may send at time t: a reading with a tag that verifies or
\* with the tag of the other field order; a frame whose JSON lacks a field; a
\* frame that does not decrypt
TagKinds == {"verifies", "other-order"}

Tagged(r, tag, key) ==
    [r EXCEPT !.checksum =
        CASE tag = "verifies" -> HMAC(key, ValidateData(r))
          [] tag = "other-order" -> HMAC(key, VerifyChecksumData(r))]

ReadingFrames(t, key) ==
    {[kind |-> "reading",
      data |-> Tagged(SensorReading(t - age, 1, "C", s, NoTag, 1), tag, key)] :
        age \in MonAges, s \in MonSensors, tag \in TagKinds}

Frames(t, key) ==
    ReadingFrames(t, key)
    \cup {[kind |-> "malformed", data |-> NoReading],
          [kind |-> "undecryptable", data |-> NoReading]}

\* check_alert (lines 157-162): the callback's return value; an exception is
\* caught and logged, and None returned
check_alert(outcome) == IF outcome = "raises" THEN "None" ELSE outcome

Severities == {"critical", "warning"}

\* _handle_alert with every alert queued, whatever its severity
handle_alert_all_queued(alert) ==
    IF alert \notin Severities THEN "error" ELSE "queue"

\* the branch of _handle_alert: 'critical' goes to _send_immediate_alert, any
\* other severity to _queue_alert; a dict without 'severity' raises KeyError,
\* which is caught and logged
handle_alert(alert) ==
    IF alert \notin Severities THEN "error"
    ELSE IF alert = "critical" THEN "immediate" ELSE "queue"

\* the loop is suspended in an await, or not running at all
AtSuspension == pc \in {"idle", "exited", "recv", "await", "sleep5", "sleep1"}

\* the event loop thread is not blocked
EventLoopFree == stop_pc # "draining"

\* the while test of _monitor_loop; leaving the loop leaves the
\* 'async with websockets.connect(...)' of start(), which closes the connection
LoopTop(running) == IF running THEN "recv" ELSE "exited"
SocketAtLoopTop(running, ws) == IF running THEN ws ELSE "closed"

\* the iteration is over: its locals (reading, alert_futures) are dropped
IterationOver ==
    /\ pc' = LoopTop(is_running)
    /\ websocket' = SocketAtLoopTop(is_running, websocket)
    /\ reading' = NoReading
    /\ futures' = <<>>
    /\ fidx' = 1
    /\ evals' = <<>>
    /\ dispatched' = <<>>

Init ==
    /\ now = 0
    /\ ticks = 0
    /\ count = 0
    /\ secret_key = "k1"
    /\ reading = NoReading
    /\ valid = FALSE
    /\ vpc = "unused"
    /\ tampered = "none"
    /\ buffers = <<>>
    /\ op = [name |-> "init", seconds |-> 0]
    /\ recent = <<>>
    /\ locks = {}
    /\ MonitorInit
    /\ NoStore
    /\ NoQuery

\* RealTimeMonitor.start up to the first recv: the connection is made, or
\* connect raises and start() logs and re-raises
Start ==
    /\ pc \in {"idle", "exited"}
    /\ EventLoopFree
    /\ stop_pc = "none"
    /\ is_running' = TRUE
    /\ \E connected \in BOOLEAN :
          IF connected
          THEN websocket' = "open" /\ pc' = "recv" /\ log' = log
          ELSE websocket' = websocket /\ pc' = "exited" /\ log' = "Monitoring error"
    /\ UNCHANGED <<queryVars, storeVars,
                   clockVars, count, valVars, reading, bufVars, alert_callbacks,
                   shutdown, stop_pc, alertVars>>

\* the peer or the network closes the connection
ConnectionDrop ==
    /\ websocket = "open"
    /\ websocket' = "closed"
    /\ UNCHANGED <<queryVars, storeVars,
                   clockVars, count, valVars, reading, bufVars, is_running,
                   alert_callbacks, shutdown, pc, stop_pc, alertVars, log>>

\* lines 113-115 with the error of a frame that does not decrypt or parse left
\* uncaught: it ends the loop
RecvParseErrorFatal ==
    /\ pc = "recv"
    /\ EventLoopFree
    /\ IF websocket # "open"
       THEN /\ pc' = "sleep5"
            /\ log' = "Connection lost"
            /\ UNCHANGED reading
       ELSE \E f \in Frames(now, secret_key) :
               /\ reading' = f.data
               /\ pc' = IF f.kind = "reading" THEN "validate" ELSE "exited"
               /\ log' = IF f.kind = "reading" THEN log ELSE "Monitoring error"
    /\ UNCHANGED <<queryVars, storeVars,
                   clockVars, count, valVars, bufVars, is_running, websocket,
                   alert_callbacks, shutdown, stop_pc, alertVars>>

\* _monitor_loop lines 113-115: recv, decrypt, json.loads, _parse_reading
Recv ==
    /\ pc = "recv"
    /\ EventLoopFree
    /\ IF websocket # "open"
       THEN /\ pc' = "sleep5"
            /\ log' = "Connection lost"
            /\ UNCHANGED reading
       ELSE \E f \in Frames(now, secret_key) :
               /\ reading' = f.data
               /\ pc' = IF f.kind = "reading" THEN "validate" ELSE "sleep1"
               /\ log' = IF f.kind = "reading" THEN log ELSE "Error in monitoring loop"
    /\ UNCHANGED <<queryVars, storeVars,
                   clockVars, count, valVars, bufVars, is_running, websocket,
                   alert_callbacks, shutdown, stop_pc, alertVars>>

\* _monitor_loop lines 117-119 with every reading taken as valid
LoopValidateNoSkip ==
    /\ pc = "validate"
    /\ reading' = validate(reading, secret_key)
    /\ pc' = "process"
    /\ UNCHANGED <<queryVars, storeVars,
                   clockVars, count, valVars, bufVars, is_running, websocket,
                   alert_callbacks, shutdown, stop_pc, alertVars, log>>

\* _monitor_loop lines 117-119: validate; an invalid reading is logged and skipped
LoopValidate ==
    /\ pc = "validate"
    /\ IF validate(reading, secret_key).is_validated
       THEN /\ reading' = validate(reading, secret_key)
            /\ pc' = "process"
            /\ UNCHANGED <<websocket, alertVars, log>>
       ELSE /\ IterationOver
            /\ log' = "Invalid reading"
    /\ UNCHANGED <<queryVars, storeVars,
                   clockVars, count, valVars, bufVars, is_running, alert_callbacks,
                   shutdown, stop_pc>>

\* _process_reading making a new RealTimeBuffer for every reading
process_reading_always_new(bufs, r, t) ==
    [s \in DOMAIN bufs \cup {r.sensor_id} |->
        IF s = r.sensor_id THEN add(RealTimeBuffer(t), r, t) ELSE bufs[s]]

\* RealTimeMonitor._process_reading
process_reading(bufs, r, t) ==
    LET had == r.sensor_id \in DOMAIN bufs
        b == IF had THEN bufs[r.sensor_id] ELSE RealTimeBuffer(t)
    IN  [s \in DOMAIN bufs \cup {r.sensor_id} |->
            IF s = r.sensor_id THEN add(b, r, t) ELSE bufs[s]]

\* _monitor_loop line 121 up to the end of the body of 'async with self.lock' in
\* add: the buffer is made if there is none, its lock taken (it is free: no
\* coroutine is suspended while it holds one), the reading appended, the
\* cleanup run
LoopProcess ==
    /\ pc = "process"
    /\ reading.sensor_id \notin locks
    /\ buffers' = process_reading(buffers, reading, now)
    /\ locks' = locks \cup {reading.sensor_id}
    /\ pc' = "release"
    /\ UNCHANGED <<queryVars, storeVars,
                   clockVars, count, valVars, reading, op, recent, is_running,
                   websocket, alert_callbacks, shutdown, stop_pc, alertVars, log>>

\* add line 55: 'async with self.lock' is left and the lock released;
\* _process_reading returns
LoopRelease ==
    /\ pc = "release"
    /\ locks' = locks \ {reading.sensor_id}
    /\ pc' = "check"
    /\ UNCHANGED <<queryVars, storeVars,
                   clockVars, count, valVars, reading, buffers, op, recent, is_running,
                   websocket, alert_callbacks, shutdown, stop_pc, alertVars, log>>

\* _check_alerts lines 164-167: one future per callback; executor.submit raises
\* RuntimeError once the executor is shut down, which the loop catches (line 128)
LoopCheckAlerts ==
    /\ pc = "check"
    /\ IF shutdown /\ alert_callbacks # <<>>
       THEN /\ pc' = "sleep1"
            /\ log' = "Error in monitoring loop"
            /\ UNCHANGED <<futures, fidx>>
       ELSE /\ futures' = [i \in DOMAIN alert_callbacks |->
                              [state |-> "pending", result |-> "None", raised |-> FALSE]]
            /\ fidx' = 1
            /\ pc' = "await"
            /\ log' = log
    /\ evals' = [i \in DOMAIN alert_callbacks |-> 0]
    /\ UNCHANGED <<queryVars, storeVars,
                   clockVars, count, valVars, reading, bufVars, is_running, websocket,
                   alert_callbacks, shutdown, stop_pc, dispatched>>

\* a worker thread takes the oldest pending work item and calls check_alert
WorkerStart ==
    /\ \E i \in DOMAIN futures :
          /\ futures[i].state = "pending"
          /\ \A j \in 1..(i - 1) : futures[j].state # "pending"
          /\ Cardinality({j \in DOMAIN futures : futures[j].state = "running"}) < max_workers
          /\ futures' = [futures EXCEPT ![i].state = "running"]
          /\ evals' = [evals EXCEPT ![i] = @ + 1]
    /\ UNCHANGED <<queryVars, storeVars,
                   clockVars, count, valVars, reading, bufVars, is_running, websocket,
                   alert_callbacks, shutdown, pc, stop_pc, fidx, dispatched, log>>

\* check_alert returns: the future is done
WorkerFinish ==
    /\ \E i \in DOMAIN futures, outcome \in Outcomes :
          /\ futures[i].state = "running"
          /\ futures' = [futures EXCEPT ![i] =
                            [state |-> "done", result |-> check_alert(outcome),
                             raised |-> outcome = "raises"]]
          /\ log' = IF outcome = "raises" THEN "Error in alert callback" ELSE log
    /\ UNCHANGED <<queryVars, storeVars,
                   clockVars, count, valVars, reading, bufVars, is_running, websocket,
                   alert_callbacks, shutdown, pc, stop_pc, fidx, evals, dispatched>>

\* _check_alerts lines 169-172 without the await: the for loop is left at once
LoopAwaitNoWait ==
    /\ pc = "await"
    /\ EventLoopFree
    /\ IterationOver
    /\ UNCHANGED <<queryVars, storeVars, clockVars, count, valVars, bufVars, is_running,
                   alert_callbacks, shutdown, stop_pc, log>>

\* _check_alerts lines 169-172: the next future is awaited and its alert handled;
\* after the last one the loop is back at its while test
LoopAwait ==
    /\ pc = "await"
    /\ EventLoopFree
    /\ IF fidx > Len(futures)
       THEN IterationOver /\ log' = log
       ELSE /\ futures[fidx].state = "done"
            /\ dispatched' =
                  IF futures[fidx].result # "None"
                  THEN Append(dispatched,
                              [future |-> fidx, alert |-> futures[fidx].result,
                               path |-> handle_alert(futures[fidx].result)])
                  ELSE dispatched
            /\ log' = IF /\ futures[fidx].result # "None"
                         /\ handle_alert(futures[fidx].result) = "error"
                      THEN "Error handling alert" ELSE log
            /\ fidx' = fidx + 1
            /\ UNCHANGED <<pc, websocket, reading, futures, evals>>
    /\ UNCHANGED <<queryVars, storeVars, clockVars, count, valVars, bufVars, is_running,
                   alert_callbacks, shutdown, stop_pc>>

\* the sleep is over and the loop goes on whatever is_running says (while True)
SleepOverIgnoresFlag ==
    /\ pc \in {"sleep5", "sleep1"}
    /\ EventLoopFree
    /\ pc' = "recv"
    /\ reading' = NoReading
    /\ futures' = <<>>
    /\ fidx' = 1
    /\ evals' = <<>>
    /\ dispatched' = <<>>
    /\ UNCHANGED <<queryVars, storeVars,
                   clockVars, count, valVars, bufVars, is_running, websocket,
                   alert_callbacks, shutdown, stop_pc, log>>

\* asyncio.sleep(5) or asyncio.sleep(1) is over: back to the while test
SleepOver ==
    /\ pc \in {"sleep5", "sleep1"}
    /\ EventLoopFree
    /\ IterationOver
    /\ UNCHANGED <<queryVars, storeVars, clockVars, count, valVars, bufVars, is_running,
                   alert_callbacks, shutdown, stop_pc, log>>

\* RealTimeMonitor.add_alert_callback
AddAlertCallback ==
    /\ AtSuspension
    /\ EventLoopFree
    /\ Len(alert_callbacks) < MaxCallbacks
    /\ alert_callbacks' = Append(alert_callbacks, Len(alert_callbacks) + 1)
    /\ UNCHANGED <<queryVars, storeVars,
                   clockVars, count, valVars, reading, bufVars, is_running, websocket,
                   shutdown, pc, stop_pc, alertVars, log>>

\* stop lines 104-106 without the test of line 105: with no connection,
\* None.close() raises AttributeError
StopCloseNoGuard ==
    /\ stop_pc = "none"
    /\ AtSuspension
    /\ is_running' = FALSE
    /\ websocket' = IF websocket = "none" THEN "none" ELSE "closed"
    /\ log' = IF websocket = "none" THEN "AttributeError" ELSE log
    /\ stop_pc' = "closing"
    /\ UNCHANGED <<queryVars, storeVars,
                   clockVars, count, valVars, reading, bufVars, alert_callbacks,
                   shutdown, pc, alertVars>>

\* RealTimeMonitor.stop lines 104-106: the flag is cleared and the connection,
\* if there is one, closed; close() is awaited
StopClose ==
    /\ stop_pc = "none"
    /\ AtSuspension
    /\ is_running' = FALSE
    /\ websocket' = IF websocket = "none" THEN "none" ELSE "closed"
    /\ stop_pc' = "closing"
    /\ UNCHANGED <<queryVars, storeVars,
                   clockVars, count, valVars, reading, bufVars, alert_callbacks,
                   shutdown, pc, alertVars, log>>

\* RealTimeMonitor.stop line 107: executor.shutdown(wait=True) blocks the event
\* loop thread until the workers are through
StopShutdown ==
    /\ stop_pc = "closing"
    /\ AtSuspension
    /\ shutdown' = TRUE
    /\ stop_pc' = "draining"
    /\ UNCHANGED <<queryVars, storeVars,
                   clockVars, count, valVars, reading, bufVars, is_running, websocket,
                   alert_callbacks, pc, alertVars, log>>

\* shutdown(wait=False): stop() returns with work items still queued or running
StopReturnNoWait ==
    /\ stop_pc = "draining"
    /\ stop_pc' = "none"
    /\ UNCHANGED <<queryVars, storeVars,
                   clockVars, count, valVars, reading, bufVars, is_running, websocket,
                   alert_callbacks, shutdown, pc, alertVars, log>>

\* shutdown(wait=True) returns, and stop() with it
StopReturn ==
    /\ stop_pc = "draining"
    /\ \A i \in DOMAIN futures : futures[i].state = "done"
    /\ stop_pc' = "none"
    /\ UNCHANGED <<queryVars, storeVars,
                   clockVars, count, valVars, reading, bufVars, is_running, websocket,
                   alert_callbacks, shutdown, pc, alertVars, log>>

Next ==
    \/ Start \/ ConnectionDrop \/ Recv \/ LoopValidate \/ LoopProcess \/ LoopRelease
    \/ LoopCheckAlerts
    \/ WorkerStart \/ WorkerFinish \/ LoopAwait \/ SleepOver
    \/ AddAlertCallback \/ StopClose \/ StopShutdown \/ StopReturn

Spec == Init /\ [][Next]_vars

\* a step of _monitor_loop that needs no frame from the peer: recv on a closed
\* connection raises at once, every other await of the loop is over in finite time
LoopStep ==
    \/ (Recv /\ websocket # "open")
    \/ LoopValidate \/ LoopProcess \/ LoopRelease \/ LoopCheckAlerts \/ LoopAwait
    \/ SleepOver

\* The event loop runs the ready coroutines in turn, so the loop is not starved
\* by calls of stop() that come one after another; the worker threads run the
\* work items they are given, and a callback returns or raises in finite time
Fairness ==
    /\ SF_vars(LoopStep)
    /\ WF_vars(WorkerStart)
    /\ WF_vars(WorkerFinish)
    /\ WF_vars(StopShutdown)
    /\ WF_vars(StopReturn)

SpecLive == Spec /\ Fairness

----------------------------------------------------------------------------
(* SecureStorage (src/data_management/secure_storage.py).  The table        *)
(* sensor_data is the sequence of its rows in rowid order; the columns id   *)
(* and created_at, which no query reads, are left out.  A TEXT timestamp is *)
(* the ISO-8601 text of a naive datetime: date, separator and time of day;  *)
(* SQLite compares such texts character by character, which for these       *)
(* fixed-width texts is the comparison of the date and then of the time.    *)
(* A Fernet token is the pair of the key and the plaintext it was made from;*)
(* only the holder of that key gets the plaintext back.  Each row carries   *)
(* two fields that are not columns: origin, the DataPoint it was stored     *)
(* from, and altered, whether it was changed behind the store's back.       *)

StoreEncKey == "e1"
NoToken == [key |-> "", plaintext |-> ""]

\* Fernet.encrypt
Encrypt(key, plaintext) == [key |-> key, plaintext |-> plaintext]

\* Fernet.decrypt raises InvalidToken unless the token was made with the key
CanDecrypt(key, token) == token.key = key /\ token # NoToken

\* Fernet.decrypt
Decrypt(key, token) == token.plaintext

\* datetime.isoformat(): 'YYYY-MM-DD', 'T', 'HH:MM:SS'
Isoformat(t) == [date |-> t \div SecondsPerDay, sep |-> "T", time |-> t % SecondsPerDay]

\* datetime.fromisoformat
FromIsoformat(x) == x.date * SecondsPerDay + x.time

\* an ISO text as it stands in an f-string
IsoText(x) == ToString(x.date) \o x.sep \o ToString(x.time)

\* SQLite's comparison of two TEXT timestamps: a <= b
TextLeq(a, b) == a.date < b.date \/ (a.date = b.date /\ a.time <= b.time)

\* a < b
TextLess(a, b) == ~TextLeq(b, a)

\* Python values used as metadata: a string, a tuple, and an object json cannot
\* serialise (a datetime, say)
PyStr == [type |-> "str", items |-> <<"field A">>]
PyTuple == [type |-> "tuple", items |-> <<1, 2>>]
PyObject == [type |-> "object", items |-> <<>>]

\* json.dumps raises TypeError on the value
Serializable(m) == m.type # "object"

\* json.dumps: a tuple is written as an array, as a list is
JsonDumps(m) ==
    [json |-> IF m.type = "str" THEN "string" ELSE "array", items |-> m.items]

\* json.loads: an array is read as a list
JsonLoads(text) ==
    [type |-> IF text.json = "string" THEN "str" ELSE "list", items |-> text.items]

StoreValues == {1, -2}

\* float(text)
FloatOf(text) == CHOOSE v \in StoreValues : FloatStr(v) = text

DataPoint(t, s, v, u, m, c) ==
    [timestamp |-> t, sensor_id |-> s, value |-> v, unit |-> u, metadata |-> m,
     checksum |-> c]

\* _verify_checksum passing every data point
verify_checksum_accept_all(dp, key) == TRUE

\* SecureStorage._verify_checksum
verify_checksum(dp, key) ==
    compare_digest(HMAC(key, VerifyChecksumData(dp)), dp.checksum)

\* the row store_data_point inserts (lines 91-111)
RowOf(dp) ==
    [timestamp |-> Isoformat(dp.timestamp),
     sensor_id |-> dp.sensor_id,
     encrypted_value |-> Encrypt(StoreEncKey, FloatStr(dp.value)),
     unit |-> dp.unit,
     encrypted_metadata |-> Encrypt(StoreEncKey, JsonDumps(dp.metadata)),
     checksum |-> dp.checksum,
     origin |-> dp,
     altered |-> FALSE]

\* SecureStorage.store_data_point: the rows afterwards and the value returned.
\* db_ok says whether the INSERT and the commit go through
store_data_point(rs, dp, db_ok) ==
    IF ~verify_checksum(dp, secret_key) THEN [rows |-> rs, ok |-> FALSE]
    ELSE IF ~Serializable(dp.metadata) THEN [rows |-> rs, ok |-> FALSE]
    ELSE IF ~db_ok THEN [rows |-> rs, ok |-> FALSE]
    ELSE [rows |-> Append(rs, RowOf(dp)), ok |-> TRUE]

\* _decrypt_data_point with the value column never decrypted (0.0 is returned)
decrypt_data_point_value_lost(row) ==
    DataPoint(FromIsoformat(row.timestamp), row.sensor_id,
              0,
              row.unit,
              JsonLoads(Decrypt(StoreEncKey, row.encrypted_metadata)),
              row.checksum)

\* SecureStorage._decrypt_data_point
decrypt_data_point(row) ==
    DataPoint(FromIsoformat(row.timestamp), row.sensor_id,
              FloatOf(Decrypt(StoreEncKey, row.encrypted_value)),
              row.unit,
              JsonLoads(Decrypt(StoreEncKey, row.encrypted_metadata)),
              row.checksum)

\* _decrypt_data_point raises on the row
DecryptRaises(row) ==
    \/ ~CanDecrypt(StoreEncKey, row.encrypted_value)
    \/ ~CanDecrypt(StoreEncKey, row.encrypted_metadata)

\* the WHERE clause of get_data_points without the test of sensor_id
SelectedAnySensor(rs, sensor_id, start_time, end_time) ==
    SelectSeq(rs, LAMBDA r :
        /\ TextLeq(Isoformat(start_time), r.timestamp)
        /\ TextLeq(r.timestamp, Isoformat(end_time)))

\* the WHERE clause of get_data_points (line 133)
Selected(rs, sensor_id, start_time, end_time) ==
    SelectSeq(rs, LAMBDA r :
        /\ r.sensor_id = sensor_id
        /\ TextLeq(Isoformat(start_time), r.timestamp)
        /\ TextLeq(r.timestamp, Isoformat(end_time)))

\* ORDER BY timestamp ASC: the rows of q in any order that is ascending in
\* timestamp (SQLite leaves the order of rows with equal timestamps open)
OrderBy(q) ==
    {o \in {[i \in DOMAIN q |-> q[p[i]]] : p \in Permutations(DOMAIN q)} :
        \A i, j \in DOMAIN o : i < j => TextLeq(o[i].timestamp, o[j].timestamp)}

\* SecureStorage.get_data_points: the lists it may return.  Any exception, one
\* raised by _decrypt_data_point included, is logged and [] returned
get_data_points(rs, sensor_id, start_time, end_time) ==
    LET q == Selected(rs, sensor_id, start_time, end_time)
    IN  IF \E i \in DOMAIN q : DecryptRaises(q[i])
        THEN {<<>>}
        ELSE {[i \in DOMAIN o |-> decrypt_data_point(o[i])] : o \in OrderBy(q)}

\* the f-string of verify_data_integrity (line 284)
IntegrityData(row) ==
    IsoText(row.timestamp) \o row.sensor_id
        \o Decrypt(StoreEncKey, row.encrypted_value) \o row.unit

\* SecureStorage.verify_data_integrity
verify_data_integrity(rs) ==
    \A i \in DOMAIN rs :
          /\ CanDecrypt(StoreEncKey, rs[i].encrypted_value)
          /\ compare_digest(HMAC(secret_key, IntegrityData(rs[i])), rs[i].checksum)

\* cleanup_old_data deleting the rows at the cutoff as well
cleanup_old_data_inclusive(rs, retention_days, t, db_ok) ==
    LET cutoff_date == t - TimedeltaDays(retention_days)
    IN  IF ~db_ok THEN [rows |-> rs, ok |-> FALSE]
        ELSE [rows |-> SelectSeq(rs, LAMBDA r :
                          ~TextLeq(r.timestamp, Isoformat(cutoff_date))),
              ok |-> TRUE]

\* SecureStorage.cleanup_old_data at time t
cleanup_old_data(rs, retention_days, t, db_ok) ==
    LET cutoff_date == t - TimedeltaDays(retention_days)
    IN  IF ~db_ok THEN [rows |-> rs, ok |-> FALSE]
        ELSE [rows |-> SelectSeq(rs, LAMBDA r :
                          ~TextLess(r.timestamp, Isoformat(cutoff_date))),
              ok |-> TRUE]

----------------------------------------------------------------------------
(* SpecStore: one SecureStorage on an empty database receives               *)
(* store_data_point, get_data_points, verify_data_integrity,                *)
(* cleanup_old_data and backup_data calls; between calls one stored value   *)
(* or checksum may be changed directly in the database file.                *)

MaxRows == 2

StoreNow == TimedeltaDays(10)
StoreAges == {0, TimedeltaDays(1), TimedeltaDays(RetentionDays + 1)}
StoreTimes == {StoreNow - age : age \in StoreAges}
RetentionChoices == {1, RetentionDays}
StoreTagKinds == {"verifies", "other-order", "none"}

\* the value and the metadata of the data points offered to the store
Payloads ==
    {[value |-> 1, metadata |-> PyStr], [value |-> -2, metadata |-> PyTuple],
     [value |-> 1, metadata |-> PyObject]}

StoreTagged(dp, tag, key) ==
    [dp EXCEPT !.checksum =
        CASE tag = "verifies" -> HMAC(key, VerifyChecksumData(dp))
          [] tag = "other-order" -> HMAC(key, ValidateData(dp))
          [] tag = "none" -> NoTag]

DataPoints ==
    {StoreTagged(DataPoint(t, s, pl.value, "C", pl.metadata, NoTag), tag, "k1") :
        t \in StoreTimes, s \in MonSensors, pl \in Payloads, tag \in StoreTagKinds}

InitStore ==
    /\ now = StoreNow
    /\ ticks = 0
    /\ count = 0
    /\ secret_key = "k1"
    /\ reading = NoReading
    /\ valid = FALSE
    /\ vpc = "unused"
    /\ tampered = "none"
    /\ buffers = <<>>
    /\ op = [name |-> "init", seconds |-> 0]
    /\ recent = <<>>
    /\ locks = {}
    /\ MonitorInit
    /\ NoStore
    /\ NoQuery

NoStoreChange ==
    UNCHANGED <<queryVars, clockVars, count, valVars, reading, bufVars, monVars>>

\* no call is under way: the caller has taken the result of the last one
StoreIdle == sop = "none"

StoreDataPoint ==
    /\ StoreIdle
    /\ Len(rows) < MaxRows
    /\ \E dp \in DataPoints, db_ok \in BOOLEAN :
          LET r == store_data_point(rows, dp, db_ok)
          IN  /\ rows' = r.rows
              /\ result' = [ok |-> r.ok, points |-> <<>>]
              /\ sarg' = [data_point |-> dp, db_ok |-> db_ok]
    /\ sop' = "store_data_point"
    /\ NoStoreChange

GetDataPoints ==
    /\ StoreIdle
    /\ \E sensor_id \in MonSensors, start_time \in StoreTimes, end_time \in StoreTimes :
          /\ start_time <= end_time
          /\ \E points \in get_data_points(rows, sensor_id, start_time, end_time) :
                result' = [ok |-> TRUE, points |-> points]
          /\ sarg' = [sensor_id |-> sensor_id, start_time |-> start_time,
                      end_time |-> end_time]
    /\ sop' = "get_data_points"
    /\ UNCHANGED rows
    /\ NoStoreChange

VerifyDataIntegrity ==
    /\ StoreIdle
    /\ result' = [ok |-> verify_data_integrity(rows), points |-> <<>>]
    /\ sarg' = [none |-> TRUE]
    /\ sop' = "verify_data_integrity"
    /\ UNCHANGED rows
    /\ NoStoreChange

CleanupOldData ==
    /\ StoreIdle
    /\ \E retention_days \in RetentionChoices, db_ok \in BOOLEAN :
          LET r == cleanup_old_data(rows, retention_days, now, db_ok)
          IN  /\ rows' = r.rows
              /\ result' = [ok |-> r.ok, points |-> <<>>]
              /\ sarg' = [retention_days |-> retention_days, db_ok |-> db_ok]
    /\ sop' = "cleanup_old_data"
    /\ NoStoreChange

\* SecureStorage.backup_data: the rows are copied to the database at
\* backup_path, or the copy fails; sarg.copied is what was written there
BackupData ==
    /\ StoreIdle
    /\ \E db_ok \in BOOLEAN :
          /\ result' = [ok |-> db_ok, points |-> <<>>]
          /\ sarg' = [copied |-> IF db_ok THEN rows ELSE <<>>, db_ok |-> db_ok]
    /\ sop' = "backup_data"
    /\ UNCHANGED rows
    /\ NoStoreChange

\* one stored value or checksum is changed directly in the database file: the
\* value blob is damaged or replaced by the blob of another value, the checksum
\* overwritten
Alterations == {"damaged value", "other value", "checksum"}

AlterRow ==
    /\ StoreIdle
    /\ \A i \in DOMAIN rows : ~rows[i].altered
    /\ \E i \in DOMAIN rows, how \in Alterations :
          rows' = [rows EXCEPT ![i] =
              CASE how = "damaged value" ->
                      [@ EXCEPT !.encrypted_value = NoToken, !.altered = TRUE]
                [] how = "other value" ->
                      [@ EXCEPT !.encrypted_value =
                           Encrypt(StoreEncKey,
                               FloatStr(CHOOSE v \in StoreValues :
                                   FloatStr(v) # @.plaintext)),
                         !.altered = TRUE]
                [] how = "checksum" ->
                      [@ EXCEPT !.checksum = NoTag, !.altered = TRUE]]
    /\ sop' = "alter"
    /\ sarg' = [none |-> TRUE]
    /\ UNCHANGED result
    /\ NoStoreChange

\* the awaiting caller takes the value returned
TakeResult ==
    /\ ~StoreIdle
    /\ sop' = "none"
    /\ sarg' = [none |-> TRUE]
    /\ result' = [ok |-> TRUE, points |-> <<>>]
    /\ UNCHANGED rows
    /\ NoStoreChange

NextStore ==
    \/ StoreDataPoint \/ GetDataPoints \/ VerifyDataIntegrity \/ CleanupOldData
    \/ BackupData \/ AlterRow \/ TakeResult

SpecStore == InitStore /\ [][NextStore]_vars

----------------------------------------------------------------------------
(* The queries of RealTimeMonitor: get_statistics, get_trend_analysis and   *)
(* get_health_check.  A query returns [raised |-> the exception it raises   *)
(* or "none", value |-> the dict it returns].  Sensor values are            *)
(* integer-valued floats and times whole seconds, so sums and the           *)
(* least-squares slope are exact fractions [num, den]; std, median,         *)
(* confidence and r_squared, read by no caller in the repository, are left  *)
(* out of the dicts.                                                        *)

RECURSIVE SumSeq(_)
SumSeq(q) == IF q = <<>> THEN 0 ELSE Head(q) + SumSeq(Tail(q))

RECURSIVE MinSeq(_)
MinSeq(q) ==
    IF Len(q) = 1 THEN q[1]
    ELSE LET m == MinSeq(Tail(q)) IN IF q[1] < m THEN q[1] ELSE m

RECURSIVE MaxSeq(_)
MaxSeq(q) ==
    IF Len(q) = 1 THEN q[1]
    ELSE LET m == MaxSeq(Tail(q)) IN IF q[1] > m THEN q[1] ELSE m

Abs(x) == IF x < 0 THEN 0 - x ELSE x

Raised(e) == [raised |-> e, value |-> [none |-> TRUE]]
Returned(v) == [raised |-> "none", value |-> v]

\* the empty dict
EmptyDict == [empty |-> TRUE]

\* RealTimeMonitor.get_statistics at time t; self.buffers[sensor_id] raises
\* KeyError when the monitor has no buffer for sensor_id
get_statistics(bufs, sensor_id, timeframe, t) ==
    IF sensor_id \notin DOMAIN bufs THEN Raised("KeyError")
    ELSE LET readings == get_recent(bufs[sensor_id], timeframe, t)
             values == [i \in DOMAIN readings |-> readings[i].value]
         IN  IF readings = <<>> THEN Returned(EmptyDict)
             ELSE Returned([mean |-> [num |-> SumSeq(values), den |-> Len(values)],
                            min |-> MinSeq(values),
                            max |-> MaxSeq(values),
                            count |-> Len(values)])

\* np.polyfit(times, values, 1)[0], the least-squares slope, as the fraction
\* (n*Sum(t*v) - Sum(t)*Sum(v)) / (n*Sum(t*t) - Sum(t)^2); den = 0 when all
\* times are equal
polyfit_slope(times, values) ==
    LET n == Len(times)
        tv == [i \in DOMAIN times |-> times[i] * values[i]]
        tt == [i \in DOMAIN times |-> times[i] * times[i]]
    IN  [num |-> n * SumSeq(tv) - SumSeq(times) * SumSeq(values),
         den |-> n * SumSeq(tt) - SumSeq(times) * SumSeq(times)]

\* the sign of the float slope: that of the exact slope; where the exact slope
\* is zero the fit is zero only up to rounding and the float has either sign or
\* is zero, except on all-zero values, whose fit is exactly zero
SlopeSigns(slope, values) ==
    IF slope.num > 0 THEN {1}
    ELSE IF slope.num < 0 THEN {-1}
    ELSE IF \A i \in DOMAIN values : values[i] = 0 THEN {0}
    ELSE {-1, 0, 1}

\* abs(slope) * timeframe / np.mean(values) in float64 arithmetic for a slope
\* of the given sign: 0/0 is nan and x/0 is inf (numpy warns and does not
\* raise); otherwise the fraction num/den with den > 0
trend_strength(sign, slope, timeframe, values) ==
    LET sum == SumSeq(values)
        n == Len(values)
    IN  IF sum = 0
        THEN [kind |-> IF sign = 0 \/ timeframe = 0 THEN "nan" ELSE "inf",
              num |-> 0, den |-> 1]
        ELSE [kind |-> "finite",
              num |-> IF sum > 0 THEN Abs(slope.num) * timeframe * n
                      ELSE 0 - Abs(slope.num) * timeframe * n,
              den |-> slope.den * Abs(sum)]

\* trend_strength < 0.1; every comparison with nan is false
BelowTenth(strength) ==
    /\ strength.kind = "finite"
    /\ 10 * strength.num < strength.den

\* lines 222-229 for a slope of the given sign
trend_of(sign, slope, timeframe, values) ==
    LET strength == trend_strength(sign, slope, timeframe, values)
    IN  [trend |-> IF BelowTenth(strength) THEN "stable"
                   ELSE IF sign > 0 THEN "increasing" ELSE "decreasing",
         trend_strength |-> strength.kind,
         slope_sign |-> sign]

\* RealTimeMonitor.get_trend_analysis at time t: the results it may give.
\* With all times equal the design matrix polyfit scales has a zero column;
\* the scaled matrix holds nan, and the LAPACK least-squares routine either
\* fails to converge (LinAlgError) or returns nan coefficients
get_trend_analysis(bufs, sensor_id, timeframe, t) ==
    IF sensor_id \notin DOMAIN bufs THEN {Raised("KeyError")}
    ELSE LET readings == get_recent(bufs[sensor_id], timeframe, t)
             values == [i \in DOMAIN readings |-> readings[i].value]
             times == [i \in DOMAIN readings |->
                          readings[i].timestamp - readings[1].timestamp]
             slope == polyfit_slope(times, values)
         IN  IF Len(readings) < 2 THEN {Returned(EmptyDict)}
             ELSE IF slope.den = 0
             THEN {Raised("LinAlgError"),
                   Returned([trend |-> "decreasing", trend_strength |-> "nan",
                             slope_sign |-> 0])}
             ELSE {Returned(trend_of(sign, slope, timeframe, values)) :
                      sign \in SlopeSigns(slope, values)}

\* the attributes RealTimeMonitor.__init__ sets (lines 76-82)
MonitorAttributes ==
    {"encryption", "secret_key", "buffers", "alert_callbacks", "executor",
     "is_running", "websocket"}

\* RealTimeMonitor.get_health_check: the read of an attribute the object does
\* not have raises AttributeError
get_health_check(running, bufs, t) ==
    IF {"last_cleanup", "start_time"} \subseteq MonitorAttributes
    THEN Returned([status |-> IF running THEN "healthy" ELSE "stopped",
                   buffer_sizes |-> [s \in DOMAIN bufs |-> Len(bufs[s].buffer)]])
    ELSE Raised("AttributeError")

----------------------------------------------------------------------------
(* SpecQuery: a RealTimeMonitor with no alert callback is started and       *)
(* stopped and receives frames with valid tags; between the iterations of   *)
(* the loop a caller awaits get_statistics, get_trend_analysis or           *)
(* get_health_check and takes the result.  The clock stands at QueryNow.    *)

QueryNow == 7200
QueryAges == {0, 60, 7200}
QueryValues == {-5, 0, 5}
QueryTimeframes == {30, 3600}

\* the readings a peer sends: any age and value for s1, one kind for s2
QueryFrames(t, key) ==
    {Tagged(SensorReading(t - age, v, "C", "s1", NoTag, 1), "verifies", key) :
        age \in QueryAges, v \in QueryValues}
    \cup {Tagged(SensorReading(t, 5, "C", "s2", NoTag, 1), "verifies", key)}

InitQuery ==
    /\ now = QueryNow
    /\ ticks = 0
    /\ count = 0
    /\ secret_key = "k1"
    /\ reading = NoReading
    /\ valid = FALSE
    /\ vpc = "unused"
    /\ tampered = "none"
    /\ buffers = <<>>
    /\ op = [name |-> "init", seconds |-> 0]
    /\ recent = <<>>
    /\ locks = {}
    /\ MonitorInit
    /\ NoStore
    /\ NoQuery

\* no query is between its call and the caller's taking of the result
QueryIdle == op.name = "init"

\* one iteration of _monitor_loop (lines 112-126) on a frame whose tag
\* verifies, with no callback registered: recv, decrypt, parse, validate,
\* _process_reading, and _check_alerts, which submits and awaits nothing
Ingest ==
    /\ QueryIdle
    /\ pc = "recv"
    /\ websocket = "open"
    /\ EventLoopFree
    /\ alert_callbacks = <<>>
    /\ \E f \in QueryFrames(now, secret_key) :
          LET r == validate(f, secret_key)
          IN  /\ r.is_validated
              /\ r.sensor_id \notin locks
              /\ buffers' = process_reading(buffers, r, now)
    /\ IterationOver
    /\ UNCHANGED <<queryVars, storeVars, clockVars, count, valVars, op, recent, locks,
                   is_running, alert_callbacks, shutdown, stop_pc, log>>

\* the caller's coroutine runs a query from its call to its return: the await
\* of get_recent on a free lock does not suspend
QueryRuns ==
    /\ QueryIdle
    /\ EventLoopFree
    /\ locks = {}
    /\ UNCHANGED <<qpc, storeVars, clockVars, count, valVars, reading, buffers, recent,
                   locks, monVars>>

GetStatistics ==
    /\ QueryRuns
    /\ \E sensor_id \in MonSensors, timeframe \in QueryTimeframes :
          /\ stats' = get_statistics(buffers, sensor_id, timeframe, now)
          /\ op' = [name |-> "get_statistics", seconds |-> timeframe,
                    sensor_id |-> sensor_id]

GetTrendAnalysis ==
    /\ QueryRuns
    /\ \E sensor_id \in MonSensors, timeframe \in QueryTimeframes :
          /\ stats' \in get_trend_analysis(buffers, sensor_id, timeframe, now)
          /\ op' = [name |-> "get_trend_analysis", seconds |-> timeframe,
                    sensor_id |-> sensor_id]

GetHealthCheck ==
    /\ QueryRuns
    /\ stats' = get_health_check(is_running, buffers, now)
    /\ op' = [name |-> "get_health_check", seconds |-> 0, sensor_id |-> "none"]

\* the caller takes the value returned, or catches the exception
QueryReturn ==
    /\ ~QueryIdle
    /\ op' = [name |-> "init", seconds |-> 0]
    /\ stats' = NoStats
    /\ UNCHANGED <<qpc, storeVars, clockVars, count, valVars, reading, buffers, recent,
                   locks, monVars>>

\* recv on a connection that stop() or the peer closed
RecvClosed == websocket # "open" /\ Recv

NextQuery ==
    \/ Start
    \/ Ingest
    \/ RecvClosed
    \/ SleepOver
    \/ StopClose
    \/ StopShutdown
    \/ StopReturn
    \/ GetStatistics
    \/ GetTrendAnalysis
    \/ GetHealthCheck
    \/ QueryReturn

SpecQuery == InitQuery /\ [][NextQuery]_vars

----------------------------------------------------------------------------
(* SpecLock: the ingestion task calls add on one RealTimeBuffer while       *)
(* another task calls get_recent on it.  Each task advances one statement   *)
(* at a time and the tasks interleave at every statement, as if every await *)
(* inside 'async with self.lock' suspended; the clock advances in between.  *)

LockAges == {0, TimedeltaDays(RetentionDays + 1)}
LockTickSteps == {cleanup_interval + 1}
LockWindows == {cleanup_interval}

\* an acquire that never waits
lock_never_waits(held, s) == TRUE

\* asyncio.Lock.acquire goes on at once only when the lock is free
lock_acquirable(held, s) == s \notin held

InitLock ==
    /\ now = 0
    /\ ticks = 0
    /\ count = 0
    /\ secret_key = "k1"
    /\ reading = NoReading
    /\ valid = FALSE
    /\ vpc = "unused"
    /\ tampered = "none"
    /\ buffers = [s \in {TheBuffer} |-> RealTimeBuffer(now)]
    /\ op = [name |-> "init", seconds |-> 0, cutoff |-> 0]
    /\ recent = <<>>
    /\ locks = {}
    /\ MonitorInit
    /\ NoStore
    /\ NoQuery

\* what no step of SpecLock changes
LockFrame ==
    UNCHANGED <<stats, storeVars, ticks, count, valVars, is_running, websocket,
                alert_callbacks, shutdown, stop_pc, alertVars, log>>

\* _process_reading calls add(reading) (line 153)
AddCall ==
    /\ pc = "idle"
    /\ \E age \in LockAges :
          reading' = SensorReading(now - age, 1, "C", TheBuffer, NoTag, 1)
    /\ pc' = "add_acquire"
    /\ UNCHANGED <<now, buffers, op, recent, locks, qpc>>
    /\ LockFrame

\* add line 54: 'async with self.lock' is entered
AddAcquire ==
    /\ pc = "add_acquire"
    /\ lock_acquirable(locks, reading.sensor_id)
    /\ locks' = locks \cup {reading.sensor_id}
    /\ pc' = "add_append"
    /\ UNCHANGED <<now, reading, buffers, op, recent, qpc>>
    /\ LockFrame

\* add line 55: self.buffer.append(reading)
AddAppend ==
    /\ pc = "add_append"
    /\ buffers' = [buffers EXCEPT ![reading.sensor_id].buffer = DequeAppend(@, reading)]
    /\ pc' = "add_cleanup"
    /\ UNCHANGED <<now, reading, op, recent, locks, qpc>>
    /\ LockFrame

\* _cleanup_if_needed lines 65-66: the test of the interval and the assignment
\* of last_cleanup
AddCleanupTest ==
    /\ pc = "add_cleanup"
    /\ IF TimedeltaSeconds(now - buffers[reading.sensor_id].last_cleanup)
            > cleanup_interval
       THEN /\ buffers' = [buffers EXCEPT ![reading.sensor_id].last_cleanup = now]
            /\ pc' = "add_filter"
       ELSE /\ buffers' = buffers
            /\ pc' = "add_release"
    /\ UNCHANGED <<now, reading, op, recent, locks, qpc>>
    /\ LockFrame

\* _cleanup_if_needed lines 67-71: the deque is replaced by its young entries
AddCleanupFilter ==
    /\ pc = "add_filter"
    /\ LET cutoff == now - TimedeltaDays(RetentionDays)
       IN  buffers' = [buffers EXCEPT ![reading.sensor_id].buffer =
                          Deque(SelectSeq(@, LAMBDA r : r.timestamp > cutoff))]
    /\ pc' = "add_release"
    /\ UNCHANGED <<now, reading, op, recent, locks, qpc>>
    /\ LockFrame

\* 'async with self.lock' of add is left; add returns
AddRelease ==
    /\ pc = "add_release"
    /\ locks' = locks \ {reading.sensor_id}
    /\ reading' = NoReading
    /\ pc' = "idle"
    /\ UNCHANGED <<now, buffers, op, recent, qpc>>
    /\ LockFrame

\* get_recent line 58: the cutoff is computed before the lock is taken
GetRecentCall ==
    /\ qpc = "idle"
    /\ \E seconds \in LockWindows :
          op' = [name |-> "get_recent", seconds |-> seconds, cutoff |-> now - seconds]
    /\ recent' = <<>>
    /\ qpc' = "acquire"
    /\ UNCHANGED <<now, reading, buffers, locks, pc>>
    /\ LockFrame

\* get_recent line 59: 'async with self.lock' is entered
GetRecentAcquire ==
    /\ qpc = "acquire"
    /\ lock_acquirable(locks, TheBuffer)
    /\ locks' = locks \cup {TheBuffer}
    /\ qpc' = "read"
    /\ UNCHANGED <<now, reading, buffers, op, recent, pc>>
    /\ LockFrame

\* get_recent line 60: the list of the entries younger than the cutoff
GetRecentRead ==
    /\ qpc = "read"
    /\ recent' = SelectSeq(buffers[TheBuffer].buffer,
                           LAMBDA r : r.timestamp > op.cutoff)
    /\ qpc' = "release"
    /\ UNCHANGED <<now, reading, buffers, op, locks, pc>>
    /\ LockFrame

\* 'async with self.lock' of get_recent is left; the list is returned
GetRecentRelease ==
    /\ qpc = "release"
    /\ locks' = locks \ {TheBuffer}
    /\ qpc' = "idle"
    /\ UNCHANGED <<now, reading, buffers, op, recent, pc>>
    /\ LockFrame

\* the clock advances
LockTick ==
    /\ ticks < MaxTicks
    /\ \E d \in LockTickSteps : now' = now + d
    /\ ticks' = ticks + 1
    /\ UNCHANGED <<stats, storeVars, count, valVars, reading, bufVars, qpc, monVars>>

NextLock ==
    \/ AddCall
    \/ AddAcquire
    \/ AddAppend
    \/ AddCleanupTest
    \/ AddCleanupFilter
    \/ AddRelease
    \/ GetRecentCall
    \/ GetRecentAcquire
    \/ GetRecentRead
    \/ GetRecentRelease
    \/ LockTick

SpecLock == InitLock /\ [][NextLock]_vars

----------------------------------------------------------------------------
(* Helpers of the properties *)

Range(q) == {q[i] : i \in DOMAIN q}

RECURSIVE IsSubSeq(_, _)
\* a is b with some entries left out, the others in the same order
IsSubSeq(a, b) ==
    IF a = <<>> THEN TRUE
    ELSE IF b = <<>> THEN FALSE
    ELSE IF Head(a) = Head(b) THEN IsSubSeq(Tail(a), Tail(b))
    ELSE IsSubSeq(a, Tail(b))

SortedByTimestamp(q) ==
    \A i, j \in DOMAIN q : i < j => q[i].timestamp <= q[j].timestamp

Horizon == RetentionDays * SecondsPerDay

----------------------------------------------------------------------------
(* Properties of SensorReading.validate (SpecValidate) *)

\* C1 (as amended): validate(secret) returns true, and sets the validation flag
\* true, if and only if the supplied checksum equals
\* HMAC-SHA256(secret, timestamp || value || unit || sensor_id), the fields
\* concatenated as strings in exactly that order; changing any single one of
\* these four fields of an accepted reading while keeping its checksum makes
\* validate return false.
C1_ValidateIffTagOfValueUnitSensor ==
    /\ vpc \in {"validated", "revalidated"} =>
          /\ valid = (reading.checksum =
                         <<secret_key,
                           DatetimeStr(reading.timestamp) \o FloatStr(reading.value)
                               \o reading.unit \o reading.sensor_id>>)
          /\ reading.is_validated = valid
    /\ (vpc = "revalidated" /\ tampered \in TaggedFields) => ~valid

\* C1, witness: an accepted reading had its unit changed and was rejected
C1_Witness == vpc = "revalidated" /\ tampered = "unit" /\ ~valid

\* C1 as stated: the tag is taken over timestamp || sensor_id || value || unit, and
\* a change of any single field of an accepted reading is rejected
C1_AsStated ==
    /\ vpc \in {"validated", "revalidated"} =>
          /\ valid = (reading.checksum =
                         <<secret_key,
                           DatetimeStr(reading.timestamp) \o reading.sensor_id
                               \o FloatStr(reading.value) \o reading.unit>>)
          /\ reading.is_validated = valid
    /\ vpc = "revalidated" => ~valid

----------------------------------------------------------------------------
(* Properties of RealTimeBuffer (SpecBuffer) *)

AddStep == op'.name = "add" /\ count' = count + 1

\* the deque as it is between the append of an add and the cleanup of that add
Appended == DequeAppend(buffers[TheBuffer].buffer, reading')

\* C3: after any sequence of add calls, cleanups included, a buffer never holds
\* more than max_size entries.
C3_NeverMoreThanMaxSize ==
    \A s \in DOMAIN buffers : Len(buffers[s].buffer) <= max_size

\* C3, witness: more adds than max_size were made, a cleanup has rebuilt the
\* deque, and the buffer is full
C3_Witness ==
    /\ op.name = "add"
    /\ count > max_size
    /\ buffers[TheBuffer].last_cleanup > 0
    /\ Len(buffers[TheBuffer].buffer) = max_size

\* C4: immediately after a cleanup pass no retained entry is older than now
\* minus 7 days, every entry that was in the buffer before the pass and is
\* younger than that is still retained, and the retained entries keep their
\* relative order.
C4_CleanupKeepsExactlyTheYoung ==
    [][(AddStep /\ buffers'[TheBuffer].last_cleanup # buffers[TheBuffer].last_cleanup) =>
          LET kept == buffers'[TheBuffer].buffer
              young(r) == r.timestamp > now - Horizon
          IN  /\ \A i \in DOMAIN kept : kept[i].timestamp >= now - Horizon
              /\ \A i \in DOMAIN kept : kept[i] \in Range(Appended)
              /\ SelectSeq(kept, young) = SelectSeq(Appended, young)
              /\ IsSubSeq(kept, Appended)]_vars

\* C4, witness: a cleanup pass has run in an add and has evicted one of the two
\* entries added so far
C4_Witness ==
    /\ op.name = "add"
    /\ now > 0
    /\ buffers[TheBuffer].last_cleanup = now
    /\ count = 2
    /\ Len(buffers[TheBuffer].buffer) = 1

\* C5 as stated: an add made more than cleanup_interval after the last cleanup,
\* whatever the elapsed duration, evicts every entry older than the 7-day
\* horizon and resets last_cleanup to now; any other add evicts nothing by age
\* and leaves last_cleanup unchanged.
C5_CleanupWheneverIntervalElapsed ==
    [][AddStep =>
          LET b == buffers[TheBuffer]
              after == buffers'[TheBuffer]
          IN  IF now - b.last_cleanup > cleanup_interval
              THEN /\ after.last_cleanup = now
                   /\ \A i \in DOMAIN after.buffer :
                         after.buffer[i].timestamp >= now - Horizon
              ELSE /\ after.last_cleanup = b.last_cleanup
                   /\ after.buffer = Appended]_vars

\* C6 (as amended): get_recent(seconds) returns exactly the buffered entries
\* whose timestamp is newer than now minus seconds, in the order in which they
\* were added; that is non-decreasing timestamp order whenever the buffer holds
\* its entries in non-decreasing timestamp order.
C6_RecentInInsertionOrder ==
    op.name = "get_recent" =>
        LET buf == buffers[TheBuffer].buffer
            cutoff == now - op.seconds
        IN  /\ \A i \in DOMAIN recent : recent[i].timestamp > cutoff
            /\ Len(recent) = Cardinality({i \in DOMAIN buf : buf[i].timestamp > cutoff})
            /\ IsSubSeq(recent, buf)
            /\ SortedByTimestamp(buf) => SortedByTimestamp(recent)

\* C6, witness: get_recent has returned some of the entries and left one out
C6_Witness ==
    /\ op.name = "get_recent"
    /\ Len(recent) >= 1
    /\ Len(recent) < Len(buffers[TheBuffer].buffer)

\* C6 as stated: whatever the order of arrival, the entries returned are in
\* non-decreasing timestamp order
C6_AsStated ==
    op.name = "get_recent" =>
        LET buf == buffers[TheBuffer].buffer
            cutoff == now - op.seconds
        IN  /\ \A i \in DOMAIN recent : recent[i].timestamp > cutoff
            /\ Len(recent) = Cardinality({i \in DOMAIN buf : buf[i].timestamp > cutoff})
            /\ SortedByTimestamp(recent)

\* C7: an add on a buffer that already holds max_size entries, with no cleanup
\* due, evicts the entry inserted earliest: the buffer afterwards is the
\* previous contents without its first entry, followed by the new reading.
C7_FullBufferEvictsOldest ==
    [][(/\ AddStep
        /\ Len(buffers[TheBuffer].buffer) = max_size
        /\ now - buffers[TheBuffer].last_cleanup <= cleanup_interval) =>
          buffers'[TheBuffer].buffer = Tail(buffers[TheBuffer].buffer) \o <<reading'>>]_vars

\* C7, witness: one add more than max_size was made with the clock untouched, so
\* no cleanup was due, and the buffer is full
C7_Witness ==
    /\ op.name = "add"
    /\ ticks = 0
    /\ count = max_size + 1
    /\ Len(buffers[TheBuffer].buffer) = max_size

----------------------------------------------------------------------------
(* Properties of the ingestion loop and the alert dispatch (Spec) *)

\* the checksum of r is the tag of its fields under the monitor's secret
TagVerifies(r) ==
    r.checksum = <<secret_key,
                   DatetimeStr(r.timestamp) \o FloatStr(r.value) \o r.unit \o r.sensor_id>>

\* _check_alerts returns: the for loop over the futures is left
ChecksReturn == pc = "await" /\ pc' # "await"

\* number of hand-offs of the alert of future i to a path
HandOffs(i, path) ==
    Cardinality({k \in DOMAIN dispatched :
                    dispatched[k].future = i /\ dispatched[k].path = path})

\* C2: every reading held in any per-sensor buffer has its validation flag true;
\* a frame whose tag does not verify is logged and skipped: it is never passed
\* to the buffer add, never triggers the evaluation of an alert predicate, and
\* does not stop the loop.
C2_OnlyValidatedReadingsBuffered ==
    [][/\ \A s \in DOMAIN buffers' : \A i \in DOMAIN buffers'[s].buffer :
             buffers'[s].buffer[i].is_validated
       /\ (pc = "validate" /\ pc' # pc /\ ~TagVerifies(reading)) =>
             /\ buffers' = buffers
             /\ futures' = <<>> /\ evals' = <<>> /\ dispatched' = <<>>
             /\ log' = "Invalid reading"
             /\ pc' = IF is_running THEN "recv" ELSE "exited"
       /\ buffers' # buffers => (pc = "process" /\ TagVerifies(reading))
       /\ (futures' # futures \/ evals' # evals) =>
             (reading' = NoReading \/ TagVerifies(reading))]_vars

\* C2, witness: a frame with a tag that does not verify was logged and skipped
\* while a buffer and a callback exist, and the loop is receiving again
C2_Witness ==
    /\ log = "Invalid reading"
    /\ pc = "recv"
    /\ DOMAIN buffers # {}
    /\ alert_callbacks # <<>>

\* C8: for every validated reading the loop validates, then adds to the buffer,
\* then evaluates the alerts, and it receives no further frame until every
\* evaluation submitted for the reading has completed and its alert has been
\* handed off.
C8_ValidateAddAlertThenNextFrame ==
    [][/\ (pc' = "process" /\ pc' # pc) => (pc = "validate" /\ reading'.is_validated)
       /\ buffers' # buffers => (pc = "process" /\ reading.is_validated)
       /\ (pc' = "release" /\ pc' # pc) => (pc = "process" /\ buffers' # <<>>)
       /\ (pc' = "check" /\ pc' # pc) => (pc = "release" /\ buffers' = buffers)
       /\ (futures' # futures /\ futures = <<>>) => pc = "check"
       /\ evals' # evals => pc \in {"check", "await", "sleep1", "validate"}
       /\ ChecksReturn =>
             /\ \A i \in DOMAIN futures : futures[i].state = "done"
             /\ \A i \in DOMAIN futures :
                   futures[i].result # "None" =>
                      \E k \in DOMAIN dispatched : dispatched[k].future = i
       /\ (pc' = "recv" \/ pc' = "validate" \/ pc' = "exited") =>
             \A i \in DOMAIN futures' : futures'[i].state = "done"]_vars

\* C8, witness: both evaluations submitted for a reading are done and their
\* alerts handed off; the loop is about to go on to the next frame
C8_Witness ==
    /\ pc = "await"
    /\ Len(futures) >= 2
    /\ fidx > Len(futures)
    /\ Len(dispatched) >= 2

\* C9 as stated: for every validated reading every alert predicate registered
\* before the reading is processed is submitted and evaluated exactly once on it.
C9_EveryCallbackEvaluatedOnce ==
    [][/\ (pc = "check" /\ pc' # pc) =>
             (pc' = "await" /\ DOMAIN futures' = DOMAIN alert_callbacks)
       /\ ChecksReturn =>
             /\ DOMAIN evals = DOMAIN futures
             /\ \A i \in DOMAIN evals : evals[i] = 1]_vars

\* C10: every alert event a predicate returns is handed off exactly once, to
\* exactly one path: the immediate path if and only if its severity is
\* 'critical', the batch queue otherwise; an alert whose handling raises (a dict
\* without 'severity') is handed to neither, the error is logged, and the
\* alerts after it are still dispatched.
C10_AlertsDispatchedOnceBySeverity ==
    [][/\ ChecksReturn =>
             \A i \in DOMAIN futures :
                IF futures[i].result = "critical"
                THEN HandOffs(i, "immediate") = 1 /\ HandOffs(i, "queue") = 0
                ELSE IF futures[i].result = "warning"
                THEN HandOffs(i, "immediate") = 0 /\ HandOffs(i, "queue") = 1
                ELSE HandOffs(i, "immediate") = 0 /\ HandOffs(i, "queue") = 0
       /\ (pc = "await" /\ fidx <= Len(futures) /\ fidx' # fidx) =>
             /\ pc' = "await"
             /\ fidx' = fidx + 1
             /\ futures[fidx].result = "no-severity" => log' = "Error handling alert"]_vars

\* C10, witness: the first alert had no severity and its handling failed, the
\* second, a critical one, went to the immediate path
C10_Witness ==
    /\ pc = "await"
    /\ Len(futures) >= 2
    /\ fidx > 2
    /\ futures[1].result = "no-severity"
    /\ futures[2].result = "critical"
    /\ \E k \in DOMAIN dispatched :
          dispatched[k].future = 2 /\ dispatched[k].path = "immediate"

----------------------------------------------------------------------------
(* Properties of the connection handling, of error recovery and of stop()   *)
(* (Spec, SpecLive)                                                          *)

\* stop() returns
StopReturns == stop_pc = "draining" /\ stop_pc' = "none"

\* a step of stop()
StopStep == stop_pc' # stop_pc

\* C11 as stated: if the connection drops while the loop is streaming and stop()
\* has not been called, the loop waits the backoff of 5 s, establishes a new
\* connection and returns to streaming.
C11_ReconnectsAfterBackoff ==
    [][(pc = "sleep5" /\ pc' # pc /\ is_running) =>
          (pc' = "recv" /\ websocket' = "open")]_vars

\* C12: a failure in one frame other than a closed connection (a frame that does
\* not decrypt, decode or parse, an error raised while buffering or alerting)
\* never ends the loop while is_running is true: the error is logged, nothing of
\* a frame that failed to parse is added to a buffer, the loop pauses 1 s and
\* goes on to receive the next frame.
C12_FrameErrorNeverEndsLoop ==
    [][/\ (pc' = "sleep1" /\ pc' # pc) =>
             /\ pc \in {"recv", "check"}
             /\ log' = "Error in monitoring loop"
             /\ buffers' = buffers
             /\ is_running' = is_running
       /\ (pc = "recv" /\ pc' = "sleep1") => reading' = NoReading
       /\ (pc = "sleep1" /\ pc' # pc) =>
             /\ pc' = IF is_running THEN "recv" ELSE "exited"
             /\ buffers' = buffers
             /\ is_running => websocket' = websocket
       /\ (pc' = "exited" /\ pc \notin {"idle", "exited"}) => ~is_running]_vars

\* C12, witness: a frame that did not parse was logged and dropped with no
\* buffer made, and the running loop is receiving again on the open connection
C12_Witness ==
    /\ pc = "recv"
    /\ is_running
    /\ websocket = "open"
    /\ log = "Error in monitoring loop"
    /\ DOMAIN buffers = {}

\* C13: when stop() returns, is_running is false, the connection, if there is
\* one, is closed, and no alert predicate evaluation submitted to the worker
\* pool is still running or pending.
C13_StopReturnsDrained ==
    [][StopReturns =>
          /\ ~is_running'
          /\ websocket' # "open"
          /\ shutdown'
          /\ \A i \in DOMAIN futures' : futures'[i].state = "done"]_vars

\* C13, witness: stop() was called while the loop awaited two evaluations and
\* has returned; both are done and the loop has not yet gone on
C13_Witness ==
    /\ stop_pc = "none"
    /\ shutdown
    /\ ~is_running
    /\ websocket = "closed"
    /\ pc = "await"
    /\ Len(futures) >= 2
    /\ fidx = 1
    /\ \A i \in DOMAIN futures : futures[i].state = "done"

\* C14: after stop() is called at any point of the loop's execution the monitor
\* loop eventually exits and start() returns, with the connection closed; once
\* the loop has exited no per-sensor buffer lock is held.
C14_LoopExitsAfterStop ==
    /\ (stop_pc = "closing") ~> (pc \in {"idle", "exited"} /\ websocket # "open")
    /\ [](pc \in {"idle", "exited"} => locks = {})

\* C14, witness: stop() was called on a monitor that has buffered a reading and
\* has returned; the loop has exited
C14_Witness ==
    /\ pc = "exited"
    /\ ~is_running
    /\ shutdown
    /\ stop_pc = "none"
    /\ websocket = "closed"
    /\ DOMAIN buffers # {}
    /\ locks = {}

\* C15: stop() is idempotent: a call on a monitor that is already stopped, or
\* that was never started, raises no error and changes nothing; after any call
\* is_running is false, the connection closed, the worker pool shut down and
\* the buffers as they were.
C15_StopIdempotent ==
    [][StopStep =>
          /\ ~is_running'
          /\ websocket' # "open"
          /\ buffers' = buffers
          /\ log' = log
          /\ StopReturns => shutdown'
          /\ (~is_running /\ websocket # "open" /\ shutdown) =>
                UNCHANGED <<is_running, websocket, shutdown, buffers, locks,
                            alert_callbacks, pc, reading, alertVars, log>>
          /\ pc = "idle" => UNCHANGED <<is_running, websocket, pc>>]_vars

\* C15, witness: stop() is called again on a monitor that an earlier stop() has
\* left stopped, its loop exited
C15_Witness ==
    /\ stop_pc = "closing"
    /\ shutdown
    /\ ~is_running
    /\ websocket = "closed"
    /\ pc = "exited"

----------------------------------------------------------------------------
(* Properties of SecureStorage (SpecStore) *)

\* the call of the given name runs and returns
StoreCall(name) == sop = "none" /\ sop' = name

\* no row has been changed behind the store's back
Untouched == \A i \in DOMAIN rows : ~rows[i].altered

\* the data point pt shows the columns of the row
ShowsRow(pt, row) ==
    /\ pt.timestamp = row.timestamp.date * SecondsPerDay + row.timestamp.time
    /\ pt.sensor_id = row.sensor_id
    /\ pt.unit = row.unit
    /\ pt.checksum = row.checksum
    /\ ToString(pt.value) \o ".0" = row.encrypted_value.plaintext

\* the stored rows of the sensor with a timestamp in [start_time, end_time]
InWindow(rs, a) ==
    SelectSeq(rs, LAMBDA r :
        /\ r.sensor_id = a.sensor_id
        /\ a.start_time <= r.timestamp.date * SecondsPerDay + r.timestamp.time
        /\ r.timestamp.date * SecondsPerDay + r.timestamp.time <= a.end_time)

\* C16: store_data_point on a data point whose checksum does not match the HMAC
\* of its plaintext fields returns False without raising and inserts no row: the
\* stored records are unchanged.  Conversely, a call that returns True has
\* inserted exactly one row carrying the data point's timestamp, sensor_id, unit
\* and checksum.
C16_BadChecksumStoresNothing ==
    [][StoreCall("store_data_point") =>
          LET dp == sarg'.data_point
              tag == <<secret_key,
                       DatetimeStr(dp.timestamp) \o dp.sensor_id \o FloatStr(dp.value)
                           \o dp.unit>>
          IN  /\ dp.checksum # tag => (~result'.ok /\ rows' = rows)
              /\ ~result'.ok => rows' = rows
              /\ result'.ok =>
                    /\ Len(rows') = Len(rows) + 1
                    /\ SubSeq(rows', 1, Len(rows)) = rows
                    /\ LET row == rows'[Len(rows')]
                       IN  /\ row.timestamp.date * SecondsPerDay + row.timestamp.time
                                 = dp.timestamp
                           /\ row.sensor_id = dp.sensor_id
                           /\ row.unit = dp.unit
                           /\ row.checksum = dp.checksum]_vars

\* C16, witness: a data point tagged in the field order of the ingestion path,
\* offered to a store that holds a row and whose database works, was refused
C16_Witness ==
    /\ sop = "store_data_point"
    /\ ~result.ok
    /\ sarg.db_ok
    /\ sarg.data_point.metadata.type = "str"
    /\ sarg.data_point.checksum # NoTag
    /\ Len(rows) >= 1

\* C17 (as amended): for every data point accepted by store_data_point, a later
\* get_data_points(sensor_id, start, end) with start <= timestamp <= end, with
\* no cleanup and no direct change of the database in between, returns a
\* record for it whose value, unit, sensor_id, timestamp and checksum equal the
\* originals and whose metadata is the original as json writes and reads it
\* back: equal to the original when it holds no tuple, with each tuple turned
\* into the list of the same items otherwise.
C17_RoundTripUpToJson ==
    [][(StoreCall("get_data_points") /\ Untouched) =>
          \A i \in DOMAIN rows :
             LET o == rows[i].origin
             IN  (/\ o.sensor_id = sarg'.sensor_id
                  /\ sarg'.start_time <= o.timestamp
                  /\ o.timestamp <= sarg'.end_time) =>
                    \E k \in DOMAIN result'.points :
                       LET pt == result'.points[k]
                       IN  /\ pt.value = o.value
                           /\ pt.unit = o.unit
                           /\ pt.sensor_id = o.sensor_id
                           /\ pt.timestamp = o.timestamp
                           /\ pt.checksum = o.checksum
                           /\ pt.metadata.items = o.metadata.items
                           /\ pt.metadata.type =
                                 IF o.metadata.type = "tuple" THEN "list"
                                 ELSE o.metadata.type]_vars

\* C17, witness: two accepted data points of one sensor, one of them with a
\* tuple in its metadata, were both returned by a query over their window
C17_Witness ==
    /\ sop = "get_data_points"
    /\ Untouched
    /\ Len(rows) = 2
    /\ Len(result.points) = 2
    /\ \E i \in DOMAIN rows : rows[i].origin.metadata.type = "tuple"
    /\ \E i \in DOMAIN rows : rows[i].origin.metadata.type = "str"

\* C17 as stated: the record returned equals the original in value, unit,
\* metadata, sensor_id, timestamp and checksum
C17_AsStated ==
    [][(StoreCall("get_data_points") /\ Untouched) =>
          \A i \in DOMAIN rows :
             LET o == rows[i].origin
             IN  (/\ o.sensor_id = sarg'.sensor_id
                  /\ sarg'.start_time <= o.timestamp
                  /\ o.timestamp <= sarg'.end_time) =>
                    \E k \in DOMAIN result'.points : result'.points[k] = o]_vars

\* C18 as stated: verify_data_integrity returns true on every store whose
\* records were all written by successful store_data_point calls and not
\* modified since, and false once any one stored value or checksum has been
\* directly altered.
C18_IntegrityTrueIffUntouched ==
    [][StoreCall("verify_data_integrity") => (result'.ok = Untouched)]_vars

\* C19: get_data_points(sensor_id, start, end) returns exactly the stored
\* records whose sensor_id equals the argument and whose timestamp lies in
\* [start, end] (none of them damaged so that it cannot be decrypted), with no
\* record of another sensor, ordered by timestamp ascending; the call does not
\* change the store.
C19_RangeQueryExactAndOrdered ==
    [][StoreCall("get_data_points") =>
          LET q == InWindow(rows, sarg')
              pts == result'.points
          IN  /\ rows' = rows
              /\ (\A i \in DOMAIN q : q[i].encrypted_value # NoToken) =>
                    /\ Len(pts) = Len(q)
                    /\ \E p \in Permutations(DOMAIN q) :
                          \A k \in DOMAIN pts : ShowsRow(pts[k], q[p[k]])
                    /\ \A k \in DOMAIN pts : pts[k].sensor_id = sarg'.sensor_id
                    /\ \A j, k \in DOMAIN pts :
                          j < k => pts[j].timestamp <= pts[k].timestamp]_vars

\* C19, witness: of two stored rows with the same timestamp the query returned
\* the one of the sensor asked for and not the one of the other sensor
C19_Witness ==
    /\ sop = "get_data_points"
    /\ Len(rows) = 2
    /\ rows[1].timestamp = rows[2].timestamp
    /\ rows[1].sensor_id # rows[2].sensor_id
    /\ Len(result.points) = 1
    /\ result.points[1].sensor_id = sarg.sensor_id

\* C20: cleanup_old_data(retention_days) deletes exactly the stored records
\* whose timestamp is older than now minus retention_days, leaves every other
\* record unchanged, and reports the outcome as True/False instead of raising
\* (nothing is deleted when it reports False); backup_data likewise returns
\* True/False instead of raising and leaves the source store unchanged.
C20_CleanupDeletesExactlyTheOld ==
    [][/\ StoreCall("cleanup_old_data") =>
             LET cutoff == now - sarg'.retention_days * SecondsPerDay
                 kept(r) == r.timestamp.date * SecondsPerDay + r.timestamp.time >= cutoff
             IN  /\ result'.ok \in BOOLEAN
                 /\ result'.ok => rows' = SelectSeq(rows, kept)
                 /\ ~result'.ok => rows' = rows
       /\ StoreCall("backup_data") =>
             /\ result'.ok \in BOOLEAN
             /\ rows' = rows
             /\ result'.ok => sarg'.copied = rows]_vars

\* C20, witness: a cleanup with a retention of one day has returned True and the
\* store holds a row exactly one day old, on the cutoff, and none that is older
C20_Witness ==
    /\ sop = "cleanup_old_data"
    /\ result.ok
    /\ sarg.retention_days = 1
    /\ Len(rows) >= 1
    /\ \E i \in DOMAIN rows : rows[i].origin.timestamp = now - SecondsPerDay
    /\ \A i \in DOMAIN rows : rows[i].origin.timestamp >= now - SecondsPerDay

----------------------------------------------------------------------------
(* Error handling of the cipher (SpecStore) *)

\* C21: a failure of the cipher during an operation reaches the caller of that
\* operation as an error and is never turned into a normal outcome: when a row
\* that get_data_points selects cannot be decrypted, the call does not return an
\* empty list.
C21_CipherFailureNotSwallowed ==
    [][(/\ StoreCall("get_data_points")
        /\ \E i \in DOMAIN InWindow(rows, sarg') :
              DecryptRaises(InWindow(rows, sarg')[i]))
          => result'.points # <<>>]_vars

----------------------------------------------------------------------------
(* The tag scheme of the ingestion path against that of the store           *)
(* (SpecValidate)                                                           *)

\* C22: the store and the ingestion path use the same tag scheme: for every
\* secret and every tuple (timestamp, value, unit, sensor_id, checksum),
\* SensorReading.validate accepts it if and only if
\* SecureStorage._verify_checksum accepts a data point with the same fields and
\* checksum.
C22_StoreAcceptsWhatIngestionAccepts ==
    vpc \in {"validated", "revalidated"} =>
        valid = verify_checksum(
                    DataPoint(reading.timestamp, reading.sensor_id, reading.value,
                              reading.unit, PyStr, reading.checksum),
                    secret_key)

\* the reading r carrying the checksum c
WithChecksum(r, c) ==
    SensorReading(r.timestamp, r.value, r.unit, r.sensor_id, c, r.confidence)

\* r and q differ in a field the tag is meant to cover
OtherTuple(r, q) == \E f \in TaggedFields : GetField(r, f) # GetField(q, f)

\* C29: for a fixed secret, a checksum that validates for one tuple (timestamp,
\* value, unit, sensor_id) validates for no other tuple: two readings that
\* differ in one or more fields never share a valid checksum (HMAC itself
\* taken to be collision-free on distinct input strings).
C29_ChecksumBindsOneTuple ==
    (vpc = "validated" /\ valid) =>
        \A q \in FieldTuples :
            OtherTuple(reading, q) =>
                ~validate(WithChecksum(q, reading.checksum), secret_key).is_validated

----------------------------------------------------------------------------
(* Per-sensor buffers of RealTimeMonitor (Spec) *)

\* _process_reading runs on the reading just validated
ProcessStep == pc = "process" /\ pc' # pc

\* C27: processing a validated reading creates a buffer for its sensor
\* identifier if and only if none exists yet, appends the reading to that
\* sensor's buffer only, and leaves the set of other sensors' buffers and their
\* contents unchanged; a buffer exists for a sensor identifier exactly when at
\* least one validated reading for it has been processed: the set of buffers
\* changes in no other step, and every buffer holds validated readings of its
\* own sensor, at least one.
C27_BufferPerSensorCreatedLazily ==
    [][/\ ProcessStep =>
            LET s == reading.sensor_id
                before == IF s \in DOMAIN buffers THEN buffers[s].buffer ELSE <<>>
            IN  /\ reading.is_validated
                /\ DOMAIN buffers' = DOMAIN buffers \cup {s}
                /\ buffers'[s].buffer = DequeAppend(before, reading)
                /\ \A o \in DOMAIN buffers \ {s} : buffers'[o] = buffers[o]
       /\ buffers' # buffers => ProcessStep
       /\ \A s \in DOMAIN buffers' :
             /\ buffers'[s].buffer # <<>>
             /\ \A i \in DOMAIN buffers'[s].buffer :
                   /\ buffers'[s].buffer[i].sensor_id = s
                   /\ buffers'[s].buffer[i].is_validated]_vars

\* C27, witness: a second reading of s1 has just been appended to the buffer s1
\* already had, next to the buffer of s2
C27_Witness ==
    /\ pc = "release"
    /\ reading.sensor_id = "s1"
    /\ DOMAIN buffers = {"s1", "s2"}
    /\ Len(buffers["s1"].buffer) = 2
    /\ Len(buffers["s2"].buffer) = 1

----------------------------------------------------------------------------
(* Restart of RealTimeMonitor (Spec) *)

\* the monitor runs again after a stop() that has returned
SecondRun == shutdown /\ stop_pc = "none" /\ is_running

\* C30: a RealTimeMonitor can be started again after stop(): after start, stop,
\* start, every validated reading received in the second run is buffered and
\* every registered alert predicate is submitted for evaluation on it, as in the
\* first run.
C30_RestartedMonitorWorksAsBefore ==
    [][(SecondRun /\ pc = "check" /\ pc' # pc) =>
          /\ \E i \in DOMAIN buffers[reading.sensor_id].buffer :
                buffers[reading.sensor_id].buffer[i] = reading
          /\ pc' = "await"
          /\ DOMAIN futures' = DOMAIN alert_callbacks
          /\ log' = log]_vars

----------------------------------------------------------------------------
(* Properties of the queries of RealTimeMonitor (SpecQuery) *)

\* the query of the given name runs and returns or raises
QueryCall(name) == QueryIdle /\ op'.name = name

\* the readings of the sensor that are younger than the timeframe, in the
\* order of the buffer; none when the sensor has no buffer
WindowOf(sensor_id, timeframe) ==
    IF sensor_id \in DOMAIN buffers
    THEN SelectSeq(buffers[sensor_id].buffer,
                   LAMBDA r : now - r.timestamp < timeframe)
    ELSE <<>>

ValuesOf(w) == [i \in DOMAIN w |-> w[i].value]
TimesOf(w) == [i \in DOMAIN w |-> w[i].timestamp - w[1].timestamp]

\* C23: for every sensor identifier and timeframe, in every reachable state of
\* the monitor, get_statistics(sensor_id, timeframe) returns an empty result
\* and raises no error whenever there is no reading for that sensor within the
\* window: its buffer holds only older readings, or no reading for that sensor
\* has been received yet.
C23_StatisticsEmptyWithoutReadings ==
    [][(/\ QueryCall("get_statistics")
        /\ WindowOf(op'.sensor_id, op'.seconds) = <<>>)
          => stats' = Returned(EmptyDict)]_vars

\* C24: get_trend_analysis classifies as 'stable' every window of two or more
\* readings that all carry the same value, for every such value (positive,
\* zero or negative) and every timeframe.
C24_ConstantValuesAreStable ==
    [][QueryCall("get_trend_analysis") =>
          LET w == WindowOf(op'.sensor_id, op'.seconds)
          IN  (/\ Len(w) >= 2
               /\ \A i \in DOMAIN w : w[i].value = w[1].value)
                  => /\ stats'.raised = "none"
                     /\ stats'.value.trend = "stable"]_vars

\* the later a reading of w, the greater its value (dir = 1) or the smaller
\* (dir = -1); no two readings of w carry the same timestamp
Monotone(w, dir) ==
    \A i, j \in DOMAIN w :
        /\ i # j => w[i].timestamp # w[j].timestamp
        /\ w[i].timestamp < w[j].timestamp => dir * w[i].value < dir * w[j].value

\* |slope| * timeframe is at least a tenth of |mean(values)|
SlopeLargeForMean(w, timeframe) ==
    LET slope == polyfit_slope(TimesOf(w), ValuesOf(w))
    IN  10 * Abs(slope.num) * timeframe * Len(w)
            >= slope.den * Abs(SumSeq(ValuesOf(w)))

\* C25: get_trend_analysis returns an empty result when fewer than 2 readings
\* fall in the window; otherwise a strictly increasing series whose slope is
\* large relative to the magnitude of its mean (|slope| * timeframe / |mean|
\* at least 0.1) is classified 'increasing' and its mirror image 'decreasing'.
C25_TrendFollowsSlope ==
    [][QueryCall("get_trend_analysis") =>
          LET w == WindowOf(op'.sensor_id, op'.seconds)
          IN  IF Len(w) < 2
              THEN stats' = Returned(EmptyDict)
              ELSE /\ (Monotone(w, 1) /\ SlopeLargeForMean(w, op'.seconds)) =>
                         (stats'.raised = "none" /\ stats'.value.trend = "increasing")
                   /\ (Monotone(w, -1) /\ SlopeLargeForMean(w, op'.seconds)) =>
                         (stats'.raised = "none" /\ stats'.value.trend = "decreasing")
      ]_vars

\* C26: in every reachable state of a RealTimeMonitor (before start, while
\* streaming, after stop), get_health_check returns a result with status
\* 'healthy' exactly when the loop is running and each reported size equal to
\* the current number of entries of that sensor's buffer; it never fails.
C26_HealthCheckNeverFails ==
    [][QueryCall("get_health_check") =>
          /\ stats'.raised = "none"
          /\ stats'.value.status = (IF is_running THEN "healthy" ELSE "stopped")
          /\ stats'.value.buffer_sizes =
                [s \in DOMAIN buffers |-> Len(buffers[s].buffer)]]_vars

----------------------------------------------------------------------------
(* Properties of the lock of RealTimeBuffer (SpecLock) *)

\* the positions of add and of get_recent inside 'async with self.lock'
AddInside == {"add_append", "add_cleanup", "add_filter", "add_release"}
ReadInside == {"read", "release"}

\* C28: for each sensor buffer, add (including the cleanup it triggers) and
\* get_recent are mutually exclusive under any interleaving of the ingestion
\* task with a concurrent query: the two are never inside the buffer's lock at
\* once, the lock is held exactly while one of them is inside, and the list
\* get_recent read is that of the buffer as it still stands when get_recent
\* returns (no add or cleanup ran in between).
C28_AddAndGetRecentExclusive ==
    /\ ~(pc \in AddInside /\ qpc \in ReadInside)
    /\ TheBuffer \in locks <=> (pc \in AddInside \/ qpc \in ReadInside)
    /\ qpc = "release" =>
          recent = SelectSeq(buffers[TheBuffer].buffer,
                             LAMBDA r : r.timestamp > op.cutoff)

\* C28, witness: get_recent waits for the lock while add, having appended and
\* stamped last_cleanup, has not yet dropped an entry older than the retention
C28_Witness ==
    /\ qpc = "acquire"
    /\ pc = "add_filter"
    /\ \E i \in DOMAIN buffers[TheBuffer].buffer :
          buffers[TheBuffer].buffer[i].timestamp <= now - TimedeltaDays(RetentionDays)

====
